---- MODULE Spec2Model ----
(***************************************************************************)
(* Farm Inventory App: the Express/Mongoose REST backend.                  *)
(*                                                                         *)
(* Two server programs live in the repository and both are modelled:       *)
(*   variant = "server"   the gated server with fallback mode              *)
(*                        (src/unnamed/part_000, lines 165-478)            *)
(*   variant = "backend"  src/backend/index.js (no gate, no /health,       *)
(*                        connect not awaited, schema without timestamps)  *)
(* and so is the earlier version of the server that has no data routes:    *)
(*   variant = "early"    src/unnamed/part_000, lines 1-163                *)
(*                                                                         *)
(* A request is handled in two steps, as the handlers do: Receive runs the *)
(* synchronous part (routing, the availability gate, the name check) and   *)
(* issues the single store call; Settle is the store call's promise        *)
(* settling and the rest of the handler (the response, the catch branch).  *)
(* Mongoose and MongoDB are the environment: casting, validation, defaults *)
(* and the atomic document operations are modelled by what they do.        *)
(***************************************************************************)
EXTENDS Integers, Sequences, FiniteSets, TLC

VARIABLES variant, MONGODB_URI, uriLine, connectCalls, PORT, errorLogged,
          proc, exitCode, readyState, store, nextId, now, slots, deleted

vars == <<variant, MONGODB_URI, uriLine, connectCalls, PORT, errorLogged,
          proc, exitCode, readyState, store, nextId, now, slots, deleted>>

(***************************************************************************)
(* Bounds                                                                  *)
(***************************************************************************)
\* number of documents ever created in one run
MaxItems == 2
\* last value of the millisecond clock
MaxClock == 1

\* request slots (requests in flight or answered and not yet collected)
\* the requests the server holds at one time: Node serves every connection
\* on one thread and a handler gives way at its await, so a second request
\* can arrive and settle while the first waits for the store
Slots == {"r1", "r2"}

\* the slot of a client that sends one request at a time
Serial == {"r1"}

\* the ObjectIds the driver generates, in generation order
ObjectIds == <<"1", "2", "3", "4">>

(***************************************************************************)
(* JSON values: a request body field or a document field                   *)
(***************************************************************************)
JAbsent == [k |-> "absent", n |-> 0, s |-> "", a |-> <<>>]

JNum(i) == [k |-> "num", n |-> i, s |-> "", a |-> <<>>]

JStr(t) == [k |-> "str", n |-> 0, s |-> t, a |-> <<>>]

JArr(q) == [k |-> "arr", n |-> 0, s |-> "", a |-> q]

\* the cast failed (Mongoose CastError on that path)
JBad == [k |-> "bad", n |-> 0, s |-> "", a |-> <<>>]

MkBody(nm, cat, qty, veh, thr) ==
  [_id |-> JAbsent, name |-> nm, category |-> cat, quantity |-> qty,
   vehicles |-> veh, lowStockThreshold |-> thr]

\* a body that also carries an _id field
withId(b, id) == [b EXCEPT !._id = JStr(id)]

EmptyBody == MkBody(JAbsent, JAbsent, JAbsent, JAbsent, JAbsent)

\* a request body that is not JSON text: express.json() cannot parse it
BadJson == MkBody(JBad, JBad, JBad, JBad, JBad)

\* express.json(): TRUE when the body parses and the request goes on to routing
bodyParses(b) == b # BadJson

\* bodies sent with POST /api/items
CreateBodies ==
  { EmptyBody,
    MkBody(JStr(""), JAbsent, JAbsent, JAbsent, JAbsent),
    MkBody(JStr("a"), JAbsent, JAbsent, JAbsent, JAbsent),
    MkBody(JStr("b"), JStr("Parts"), JNum(6), JArr(<<"Tractor">>), JNum(-1)),
    MkBody(JStr("a"), JAbsent, JStr("6"), JAbsent, JAbsent),
    MkBody(JStr("a"), JAbsent, JStr("x"), JAbsent, JAbsent),
    withId(MkBody(JStr("a"), JAbsent, JAbsent, JAbsent, JAbsent), "1") }

\* bodies sent with PUT /api/items/:id
UpdateBodies ==
  { EmptyBody,
    MkBody(JAbsent, JAbsent, JNum(6), JAbsent, JAbsent),
    MkBody(JStr(""), JAbsent, JAbsent, JAbsent, JAbsent),
    MkBody(JAbsent, JAbsent, JStr("x"), JAbsent, JAbsent),
    MkBody(JStr("b"), JAbsent, JAbsent, JAbsent, JNum(6)),
    withId(MkBody(JAbsent, JAbsent, JNum(6), JAbsent, JAbsent), "1"),
    withId(MkBody(JAbsent, JAbsent, JNum(6), JAbsent, JAbsent), "4") }

\* the last path segment of /api/items/<segment>: the id of the first
\* document created, a well-formed id no document has, a malformed id, and
\* the literal low-stock
Segments == {"1", "4", "bad", "low-stock"}

Methods == {"GET", "POST", "PUT", "DELETE"}

Paths ==
  { <<>>, <<"health">>, <<"nonexistent">>, <<"api", "items">> }
    \cup { <<"api", "items", g>> : g \in Segments }

\* the requests clients send: every GET, the three writes on their own
\* paths, and a method no route is registered for
Requests ==
  { <<"GET", p>> : p \in Paths }
    \cup { <<"POST", <<"api", "items">> >>, <<"POST", <<"health">> >>,
           <<"DELETE", <<"api", "items">> >> }
    \cup { <<m, <<"api", "items", g>> >> : m \in {"PUT", "DELETE"},
                                          g \in Segments \ {"low-stock"} }

(***************************************************************************)
(* Mongoose: casting, defaults, validation                                 *)
(***************************************************************************)
\* strings that parse as numbers (Number("5") = 5)
NumericStrings == ("5" :> 5) @@ ("6" :> 6)

\* SchemaNumber cast
castNumber(v) ==
  CASE v.k = "absent" -> JAbsent
    [] v.k = "num" -> v
    [] v.k = "str" -> IF v.s \in DOMAIN NumericStrings
                        THEN JNum(NumericStrings[v.s]) ELSE JBad
    [] OTHER -> JBad

\* SchemaString cast
castString(v) ==
  CASE v.k = "absent" -> JAbsent
    [] v.k = "str" -> v
    [] OTHER -> JBad

\* [String] cast
castStringArray(v) ==
  CASE v.k = "absent" -> JAbsent
    [] v.k = "arr" -> v
    [] v.k = "str" -> JArr(<<v.s>>)
    [] OTHER -> JBad

\* a 24-hex-digit string casts to an ObjectId; "1".."4" stand for such strings
isObjectId(seg) == \E i \in 1..Len(ObjectIds) : ObjectIds[i] = seg

\* JavaScript truthiness, as used by !req.body.name
truthy(v) ==
  CASE v.k = "absent" -> FALSE
    [] v.k = "str" -> v.s # ""
    [] v.k = "num" -> v.n # 0
    [] OTHER -> TRUE

(***************************************************************************)
(* inventorySchema and the documents of the Inventory collection           *)
(***************************************************************************)
\* quantity: { type: Number, default: 0 }
QuantityDefault == 0

\* lowStockThreshold: { type: Number, default: 5 }
LowStockThresholdDefault == 5

\* name: { type: String, required: true }
NameRequired == TRUE

\* { timestamps: true } is an option of the server's schema only
Timestamps(v) == v = "server"

\* { runValidators: true } is passed by the server's update only
RunValidators(v) == v = "server"

MkDoc(id, nm, cat, qty, veh, thr, cre, upd) ==
  [_id |-> id, name |-> nm, category |-> cat, quantity |-> qty,
   vehicles |-> veh, lowStockThreshold |-> thr, createdAt |-> cre,
   updatedAt |-> upd]

\* "no document": what findById resolves to when nothing matches (null)
NoDoc == MkDoc("", JAbsent, JAbsent, JAbsent, JAbsent, JAbsent, JAbsent, JAbsent)

\* a default applies when the field is undefined
withDefault(v, d) == IF v.k = "absent" THEN d ELSE v

\* a schema whose lowStockThreshold has no default
newInventoryNoThresholdDefault(id, body) ==
  MkDoc(IF body._id.k = "absent" THEN id ELSE body._id.s,
        castString(body.name),
        castString(body.category),
        withDefault(castNumber(body.quantity), JNum(QuantityDefault)),
        withDefault(castStringArray(body.vehicles), JArr(<<>>)),
        castNumber(body.lowStockThreshold),
        JAbsent, JAbsent)

\* new Inventory(req.body): cast every schema path, apply the defaults;
\* the generated ObjectId is used unless the body brings an _id
newInventory(id, body) ==
  MkDoc(IF body._id.k = "absent" THEN id ELSE body._id.s,
        castString(body.name),
        castString(body.category),
        withDefault(castNumber(body.quantity), JNum(QuantityDefault)),
        withDefault(castStringArray(body.vehicles), JArr(<<>>)),
        withDefault(castNumber(body.lowStockThreshold),
                    JNum(LowStockThresholdDefault)),
        JAbsent, JAbsent)

\* the required validator of a String path: present and of non-zero length
requiredOk(v) == (~NameRequired) \/ (v.k = "str" /\ v.s # "")

hasCastError(d) ==
  \/ d.name.k = "bad"
  \/ d.category.k = "bad"
  \/ d.quantity.k = "bad"
  \/ d.vehicles.k = "bad"
  \/ d.lowStockThreshold.k = "bad"

\* a schema whose name is not required
validateDocNameOptional(d) == ~hasCastError(d)

\* document validation run by save(): ValidationError when it fails
validateDoc(d) == requiredOk(d.name) /\ ~hasCastError(d)

\* the update document after casting (strict mode keeps schema paths only)
castUpdate(body) ==
  [MkBody(castString(body.name), castString(body.category),
          castNumber(body.quantity), castStringArray(body.vehicles),
          castNumber(body.lowStockThreshold))
     EXCEPT !._id = body._id]

\* update validators run on the paths the update sets
validateUpdate(u) == u.name.k = "absent" \/ requiredOk(u.name)

\* an update that replaces the document: a path the body omits is unset
setFieldReplaces(old, new) == new

setField(old, new) == IF new.k = "absent" THEN old ELSE new

\* $set of the supplied paths; updatedAt is refreshed when timestamps are on
applyUpdate(v, d, u, t) ==
  MkDoc(IF u._id.k = "absent" THEN d._id ELSE u._id.s,
        setField(d.name, u.name),
        setField(d.category, u.category),
        setField(d.quantity, u.quantity),
        setField(d.vehicles, u.vehicles),
        setField(d.lowStockThreshold, u.lowStockThreshold),
        d.createdAt,
        IF Timestamps(v) THEN JNum(t) ELSE d.updatedAt)

\* the timestamps save() writes on a new document
stamp(v, d, t) ==
  IF Timestamps(v)
    THEN [d EXCEPT !.createdAt = JNum(t), !.updatedAt = JNum(t)]
    ELSE d

(***************************************************************************)
(* The collection: a set of documents with distinct _id                    *)
(***************************************************************************)
findById(st, id) ==
  IF \E d \in st : d._id = id THEN CHOOSE d \in st : d._id = id ELSE NoDoc

\* a filter written with $lt instead of $lte
lowStockFilterStrict(d) == d.quantity.n < d.lowStockThreshold.n

\* { $expr: { $lte: ['$quantity', '$lowStockThreshold'] } }
lowStockFilter(d) == d.quantity.n <= d.lowStockThreshold.n

findLowStock(st) == { d \in st : lowStockFilter(d) }

\* a delete that finds the document and leaves it in the collection
findByIdAndDeleteKeeps(st, id) == st

findByIdAndDelete(st, id) == { d \in st : d._id # id }

findByIdAndUpdate(v, st, id, u, t) ==
  { IF d._id = id THEN applyUpdate(v, d, u, t) ELSE d : d \in st }

\* the unique index on _id: an insert of an _id that is stored is rejected
\* (E11000 duplicate key)
duplicateKey(st, d) == \E e \in st : e._id = d._id

\* a store that lets an update set _id like any other field
modifiesIdAllowed(id, u) == FALSE

\* _id is immutable: MongoDB rejects an update that would set the _id of
\* the matched document to another value
modifiesId(id, u) == u._id.k # "absent" /\ u._id.s # id

(***************************************************************************)
(* Routing: Express tries the routes in registration order                 *)
(***************************************************************************)
Route(m, pat, g, h) == [method |-> m, pattern |-> pat, gated |-> g, handler |-> h]

\* the server's routes with /api/items/:id registered before low-stock
ServerRoutesIdFirst ==
  << Route("GET", <<>>, FALSE, "root"),
     Route("GET", <<"health">>, FALSE, "health"),
     Route("GET", <<"api", "items">>, TRUE, "list"),
     Route("GET", <<"api", "items", ":id">>, TRUE, "getById"),
     Route("GET", <<"api", "items", "low-stock">>, TRUE, "lowStock"),
     Route("POST", <<"api", "items">>, TRUE, "create"),
     Route("PUT", <<"api", "items", ":id">>, TRUE, "update"),
     Route("DELETE", <<"api", "items", ":id">>, TRUE, "delete") >>

\* the server's routes, in the order of their app.get/post/put/delete calls
ServerRoutes ==
  << Route("GET", <<>>, FALSE, "root"),
     Route("GET", <<"health">>, FALSE, "health"),
     Route("GET", <<"api", "items", "low-stock">>, TRUE, "lowStock"),
     Route("GET", <<"api", "items">>, TRUE, "list"),
     Route("GET", <<"api", "items", ":id">>, TRUE, "getById"),
     Route("POST", <<"api", "items">>, TRUE, "create"),
     Route("PUT", <<"api", "items", ":id">>, TRUE, "update"),
     Route("DELETE", <<"api", "items", ":id">>, TRUE, "delete") >>

\* the routes of backend/index.js: no /health, no gate on any route
BackendRoutes ==
  << Route("GET", <<>>, FALSE, "root"),
     Route("GET", <<"api", "items">>, FALSE, "list"),
     Route("GET", <<"api", "items", "low-stock">>, FALSE, "lowStock"),
     Route("GET", <<"api", "items", ":id">>, FALSE, "getById"),
     Route("POST", <<"api", "items">>, FALSE, "create"),
     Route("PUT", <<"api", "items", ":id">>, FALSE, "update"),
     Route("DELETE", <<"api", "items", ":id">>, FALSE, "delete") >>

\* the routes of the earlier version of the server
EarlyRoutes ==
  << Route("GET", <<>>, FALSE, "root"),
     Route("GET", <<"health">>, FALSE, "health") >>

Routes(v) ==
  CASE v = "server" -> ServerRoutes
    [] v = "early" -> EarlyRoutes
    [] OTHER -> BackendRoutes

\* a 404 handler that still lists the routes of the earlier version
availableRoutesStale(v) ==
  << <<"GET", <<>> >>, <<"GET", <<"health">> >> >>

\* the availableRoutes array of the 404 handler, each 'METHOD /path' string
\* read as a method and a route pattern
availableRoutes(v) ==
  IF v = "early"
    THEN << <<"GET", <<>> >>, <<"GET", <<"health">> >> >>
    ELSE << <<"GET", <<>> >>,
            <<"GET", <<"health">> >>,
            <<"GET", <<"api", "items">> >>,
            <<"POST", <<"api", "items">> >>,
            <<"GET", <<"api", "items", "low-stock">> >>,
            <<"GET", <<"api", "items", ":id">> >>,
            <<"PUT", <<"api", "items", ":id">> >>,
            <<"DELETE", <<"api", "items", ":id">> >> >>

\* a path matches a pattern segment by segment; ":id" matches any segment
matches(pat, path) ==
  /\ Len(pat) = Len(path)
  /\ \A i \in 1..Len(pat) : pat[i] = ":id" \/ pat[i] = path[i]

\* the first route that matches, or the fall-through (no route)
NoRoute == Route("", <<>>, FALSE, "notFound")

dispatch(v, m, path) ==
  LET rs == Routes(v)
      hit == { i \in 1..Len(rs) : rs[i].method = m /\ matches(rs[i].pattern, path) }
  IN IF hit = {} THEN NoRoute
     ELSE rs[CHOOSE i \in hit : \A j \in hit : i <= j]

DataHandlers == {"lowStock", "list", "getById", "create", "update", "delete"}

ByIdHandlers == {"getById", "update", "delete"}

(***************************************************************************)
(* Responses                                                               *)
(***************************************************************************)
Resp(st, err, db, msg, it, its) ==
  [status |-> st, error |-> err, database |-> db, message |-> msg,
   item |-> it, items |-> its, availableRoutes |-> <<>>]

NoResp == Resp(0, "", "", "", NoDoc, {})

Json(st, it) == Resp(st, "", "", "", it, {})

JsonList(its) == Resp(200, "", "", "", NoDoc, its)

JsonError(st, err) == Resp(st, err, "", "", NoDoc, {})

\* error.message of the errors Mongoose and the driver raise
CastErrorMessage == "Cast failed"

ValidationErrorMessage == "Inventory validation failed"

\* error.message of an error the driver or the server raises for the
\* operation itself (connection lost, duplicate key, immutable field)
StoreErrorMessage == "store operation failed"

\* a health route that tests readyState !== 0 instead of === 1
healthDatabaseNotClosed(rs) == IF rs # 0 THEN "connected" ELSE "disconnected"

\* the database field of GET /health
healthDatabase(rs) == IF rs = 1 THEN "connected" ELSE "disconnected"

\* a gate that tests readyState === 0 instead of !== 1
checkDatabaseConnectionOnlyClosed(rs) == rs = 0

\* checkDatabaseConnection: TRUE when the middleware answers 503 itself
checkDatabaseConnection(rs) == rs # 1

\* a gate that answers with an empty result instead of an error
GateResponseEmptyResult == Resp(200, "", "", "", NoDoc, {})

GateResponse ==
  Resp(503, "Database unavailable", "disconnected",
       "MongoDB is not currently connected. Database features are unavailable in fallback mode.",
       NoDoc, {})

\* the catch branch for an invalid ObjectId exists in the server only
castErrorResponse(v, h) ==
  IF v = "server" THEN JsonError(400, "Invalid item ID format")
  ELSE IF h = "update" THEN JsonError(400, CastErrorMessage)
  ELSE JsonError(500, CastErrorMessage)

(***************************************************************************)
(* The handlers.  Each returns the response and the collection afterwards. *)
(* ok = the store call completed; ~ok = it was rejected by the driver      *)
(* (buffering timed out, connection lost): the handler's catch branch.     *)
(***************************************************************************)
Out(r, st, nid, del) == [resp |-> r, store |-> st, nextId |-> nid, deleted |-> del]

\* GET /api/items/low-stock
getLowStock(v, st, nid, del, ok) ==
  IF ok THEN Out(JsonList(findLowStock(st)), st, nid, del)
  ELSE Out(JsonError(500, StoreErrorMessage), st, nid, del)

\* GET /api/items
getItems(v, st, nid, del, ok) ==
  IF ok THEN Out(JsonList(st), st, nid, del)
  ELSE Out(JsonError(500, StoreErrorMessage), st, nid, del)

\* a get-by-id written with findByIdAndDelete instead of findById
getItemRemoves(v, st, nid, del, seg, ok) ==
  IF ~isObjectId(seg) THEN Out(castErrorResponse(v, "getById"), st, nid, del)
  ELSE IF ~ok THEN Out(JsonError(500, StoreErrorMessage), st, nid, del)
  ELSE IF findById(st, seg) = NoDoc
    THEN Out(JsonError(404, "Item not found"), st, nid, del)
  ELSE Out(Json(200, findById(st, seg)), findByIdAndDelete(st, seg), nid, del)

\* GET /api/items/:id
getItem(v, st, nid, del, seg, ok) ==
  IF ~isObjectId(seg) THEN Out(castErrorResponse(v, "getById"), st, nid, del)
  ELSE IF ~ok THEN Out(JsonError(500, StoreErrorMessage), st, nid, del)
  ELSE IF findById(st, seg) = NoDoc
    THEN Out(JsonError(404, "Item not found"), st, nid, del)
  ELSE Out(Json(200, findById(st, seg)), st, nid, del)

\* POST /api/items, the synchronous check: TRUE when it answers 400 itself
nameMissing(v, body) == v = "server" /\ ~truthy(body.name)

\* POST /api/items, from new Inventory(req.body) on
postItem(v, st, nid, del, body, t, ok) ==
  LET d == newInventory(ObjectIds[nid], body)
  IN IF ~validateDoc(d)
       THEN Out(JsonError(400, ValidationErrorMessage), st, nid, del)
     ELSE IF ~ok \/ duplicateKey(st, d)
       THEN Out(JsonError(400, StoreErrorMessage), st, nid, del)
     ELSE Out(Json(201, stamp(v, d, t)), st \cup {stamp(v, d, t)},
              IF body._id.k = "absent" THEN nid + 1 ELSE nid,
              del \ {d._id})

\* an update handler that writes first and validates the written document
\* afterwards
putItemValidatesAfter(v, st, nid, del, seg, body, t, ok) ==
  LET u == castUpdate(body)
  IN IF ~isObjectId(seg) \/ hasCastError(u)
       THEN Out(castErrorResponse(v, "update"), st, nid, del)
     ELSE IF ~ok THEN Out(JsonError(400, StoreErrorMessage), st, nid, del)
     ELSE IF findById(st, seg) = NoDoc
       THEN Out(JsonError(404, "Item not found"), st, nid, del)
     ELSE IF modifiesId(seg, u)
       THEN Out(JsonError(400, StoreErrorMessage), st, nid, del)
     ELSE LET st2 == findByIdAndUpdate(v, st, seg, u, t)
          IN IF RunValidators(v) /\ ~validateUpdate(u)
               THEN Out(JsonError(400, ValidationErrorMessage), st2, nid, del)
               ELSE Out(Json(200, findById(st2, seg)), st2, nid, del)

\* an update handler whose store call inserts the document it does not
\* find ({upsert: true})
putItemUpserts(v, st, nid, del, seg, body, t, ok) ==
  LET u == castUpdate(body)
  IN IF ~isObjectId(seg) \/ hasCastError(u)
       THEN Out(castErrorResponse(v, "update"), st, nid, del)
     ELSE IF RunValidators(v) /\ ~validateUpdate(u)
       THEN Out(JsonError(400, ValidationErrorMessage), st, nid, del)
     ELSE IF ~ok THEN Out(JsonError(400, StoreErrorMessage), st, nid, del)
     ELSE IF findById(st, seg) = NoDoc
       THEN LET d == stamp(v, newInventory(seg, body), t)
            IN Out(Json(200, d), st \cup {d}, nid, del)
     ELSE IF modifiesId(seg, u)
       THEN Out(JsonError(400, StoreErrorMessage), st, nid, del)
     ELSE LET st2 == findByIdAndUpdate(v, st, seg, u, t)
          IN Out(Json(200, findById(st2, seg)), st2, nid, del)

\* PUT /api/items/:id
putItem(v, st, nid, del, seg, body, t, ok) ==
  LET u == castUpdate(body)
  IN IF ~isObjectId(seg) \/ hasCastError(u)
       THEN Out(castErrorResponse(v, "update"), st, nid, del)
     ELSE IF RunValidators(v) /\ ~validateUpdate(u)
       THEN Out(JsonError(400, ValidationErrorMessage), st, nid, del)
     ELSE IF ~ok THEN Out(JsonError(400, StoreErrorMessage), st, nid, del)
     ELSE IF findById(st, seg) = NoDoc
       THEN Out(JsonError(404, "Item not found"), st, nid, del)
     ELSE IF modifiesId(seg, u)
       THEN Out(JsonError(400, StoreErrorMessage), st, nid, del)
     ELSE LET st2 == findByIdAndUpdate(v, st, seg, u, t)
          IN Out(Json(200, findById(st2, seg)), st2, nid, del)

\* a delete handler whose store call removes every document (deleteMany)
deleteItemRemovesAll(v, st, nid, del, seg, ok) ==
  IF ~isObjectId(seg) THEN Out(castErrorResponse(v, "delete"), st, nid, del)
  ELSE IF ~ok THEN Out(JsonError(500, StoreErrorMessage), st, nid, del)
  ELSE IF findById(st, seg) = NoDoc
    THEN Out(JsonError(404, "Item not found"), st, nid, del)
  ELSE Out(Resp(200, "", "", "Item deleted successfully", NoDoc, {}),
           {}, nid, del \cup {seg})

\* DELETE /api/items/:id
deleteItem(v, st, nid, del, seg, ok) ==
  IF ~isObjectId(seg) THEN Out(castErrorResponse(v, "delete"), st, nid, del)
  ELSE IF ~ok THEN Out(JsonError(500, StoreErrorMessage), st, nid, del)
  ELSE IF findById(st, seg) = NoDoc
    THEN Out(JsonError(404, "Item not found"), st, nid, del)
  ELSE Out(Resp(200, "", "", "Item deleted successfully", NoDoc, {}),
           findByIdAndDelete(st, seg), nid, del \cup {seg})

\* app.get('/')
rootResponse == Resp(200, "", "", "Farm Inventory App Backend is running!", NoDoc, {})

\* app.get('/health')
healthResponse(rs) == Resp(200, "", healthDatabase(rs), "OK", NoDoc, {})

\* the 404 handler (the server's app.use; Express's own in backend/index.js)
\* a last middleware that neither answers nor calls next
notFoundResponseSilent(v) == NoResp

notFoundResponse(v) ==
  IF v \in {"server", "early"}
    THEN [Resp(404, "Not Found", "", "Route not found", NoDoc, {})
            EXCEPT !.availableRoutes = availableRoutes(v)]
  ELSE Resp(404, "", "", "Cannot", NoDoc, {})

\* err.message of the SyntaxError express.json() passes to next(err)
JsonParseErrorMessage == "Unexpected token"

\* the error-handling middleware: status err.status || 500, error
\* err.message; Express's own error handler in backend/index.js answers
\* with the same status
errorMiddleware(v) ==
  IF v \in {"server", "early"}
    THEN JsonError(400, JsonParseErrorMessage)
  ELSE Resp(400, "", "", "SyntaxError", NoDoc, {})

(***************************************************************************)
(* Request slots                                                           *)
(***************************************************************************)
\* ops counts the calls of a model method (find, findById, save,
\* findByIdAndUpdate, findByIdAndDelete) the handler has made for the
\* request; conc records that another request waited for the store while
\* this one did, stale that the connection was lost while it waited
FreeSlot ==
  [st |-> "free", method |-> "", path |-> <<>>, body |-> EmptyBody,
   handler |-> "", resp |-> NoResp, ops |-> 0, conc |-> FALSE,
   stale |-> FALSE]

\* the handler has made its one store call and waits at its await
Pending(m, p, b, h) ==
  [st |-> "pending", method |-> m, path |-> p, body |-> b, handler |-> h,
   resp |-> NoResp, ops |-> 1, conc |-> FALSE, stale |-> FALSE]

\* the response has been sent (res.json returns and the handler ends)
Done(m, p, b, h, r) ==
  [st |-> "done", method |-> m, path |-> p, body |-> b, handler |-> h,
   resp |-> r, ops |-> 0, conc |-> FALSE, stale |-> FALSE]

\* a handler that repeats its store call once when the call has failed
answerAfterRetry(q, r) ==
  [Done(q.method, q.path, q.body, q.handler, r) EXCEPT
     !.ops = IF r.error = StoreErrorMessage THEN q.ops + 1 ELSE q.ops,
     !.conc = q.conc, !.stale = q.stale]

\* a handler without a catch branch: the rejection of its store call
\* leaves the request without a response
answerUncaught(q, r) ==
  [Done(q.method, q.path, q.body, q.handler,
        IF r.error = StoreErrorMessage THEN NoResp ELSE r) EXCEPT
     !.ops = q.ops, !.conc = q.conc, !.stale = q.stale]

\* the request q answered with r by the handler that awaited its store call
answer(q, r) ==
  [Done(q.method, q.path, q.body, q.handler, r) EXCEPT
     !.ops = q.ops, !.conc = q.conc, !.stale = q.stale]

\* the slots after a request has arrived in slot s and run to q
arrive(sl, s, q) ==
  [t \in Slots |->
     IF t = s
       THEN [q EXCEPT !.conc = q.st = "pending" /\
                                 \E u \in Slots \ {s} : sl[u].st = "pending"]
     ELSE IF sl[t].st = "pending" /\ q.st = "pending"
       THEN [sl[t] EXCEPT !.conc = TRUE]
     ELSE sl[t]]

\* the :id parameter of a request
idOf(q) == IF Len(q.path) = 3 THEN q.path[3] ELSE ""

\* the bodies a client sends with a request of this method and path
bodiesFor(m, p) ==
  IF m = "POST" /\ p = <<"api", "items">> THEN CreateBodies \cup {BadJson}
  ELSE IF m = "PUT" /\ Len(p) = 3 THEN UpdateBodies \cup {BadJson}
  ELSE IF m = "POST" THEN {EmptyBody, BadJson}
  ELSE {EmptyBody}

Serving == proc \in {"listening", "closing"}

\* PORT = process.env.PORT || 5000: the default, and a value listen rejects
Ports == {5000, 70000}

\* net.Server.listen accepts the ports 0..65535 and throws on any other
validPort(p) == p >= 0 /\ p <= 65535

(***************************************************************************)
(* The request pipeline                                                    *)
(***************************************************************************)
\* routing, the gate and the handler up to its first await
receive(v, rs, m, p, b) ==
  LET r == dispatch(v, m, p)
  IN CASE ~bodyParses(b) -> Done(m, p, b, "error", errorMiddleware(v))
       [] r.handler = "root" -> Done(m, p, b, r.handler, rootResponse)
       [] r.handler = "health" -> Done(m, p, b, r.handler, healthResponse(rs))
       [] r.handler = "notFound" -> Done(m, p, b, r.handler, notFoundResponse(v))
       [] OTHER ->
            IF r.gated /\ checkDatabaseConnection(rs)
              THEN Done(m, p, b, r.handler, GateResponse)
            ELSE IF r.handler = "create" /\ nameMissing(v, b)
              THEN Done(m, p, b, r.handler, JsonError(400, "Item name is required"))
            ELSE Pending(m, p, b, r.handler)

\* the handler from its await on
settle(v, st, nid, del, q, t, ok) ==
  CASE q.handler = "lowStock" -> getLowStock(v, st, nid, del, ok)
    [] q.handler = "list" -> getItems(v, st, nid, del, ok)
    [] q.handler = "getById" -> getItem(v, st, nid, del, idOf(q), ok)
    [] q.handler = "create" -> postItem(v, st, nid, del, q.body, t, ok)
    [] q.handler = "update" -> putItem(v, st, nid, del, idOf(q), q.body, t, ok)
    [] OTHER -> deleteItem(v, st, nid, del, idOf(q), ok)

(***************************************************************************)
(* The connection string and the line connectDB logs for it.  A string is  *)
(* a sequence of characters; "m" stands for the scheme name, "h" for a     *)
(* host name, "2" for a port number, "d" for a database name.              *)
(***************************************************************************)
MaxPassword == 2

Scheme == <<"m", ":">>

Mask == <<"*", "*", "*", "*">>

RECURSIVE Strings(_, _)
\* the non-empty strings of at most n characters of the set cs
Strings(cs, n) ==
  IF n = 0 THEN {}
  ELSE {<<c>> : c \in cs}
         \cup {<<c>> \o w : c \in cs, w \in Strings(cs, n - 1)}

\* user names and passwords as a connection string carries them: the
\* characters : / ? # [ ] @ are percent-encoded
Users == {<<"u">>, <<"u", "%">>}

Passwords == Strings({"p", "q", "%"}, MaxPassword)

Hosts == {<<"h">>, <<"h", ":", "2">>}

Tails == {<<>>, <<"/", "d">>}

Uri(cred, host, tail) == Scheme \o <<"/", "/">> \o cred \o host \o tail

withPassword(u, pw) == u \o <<":">> \o pw \o <<"@">>

Creds ==
  {<<>>} \cup {u \o <<"@">> : u \in Users}
         \cup {withPassword(u, pw) : u \in Users, pw \in Passwords}

Uris == {Uri(c, h, t) : c \in Creds, h \in Hosts, t \in Tails}

\* 'mongodb://localhost:27017/farm-inventory'
DefaultUri == Uri(<<>>, <<"h", ":", "2">>, <<"/", "d">>)

\* the first position from i on where the string holds the character c,
\* 0 when there is none
firstAt(u, c, i) ==
  IF \E k \in i..Len(u) : u[k] = c
    THEN CHOOSE k \in i..Len(u) : u[k] = c /\ \A j \in i..(k - 1) : u[j] # c
    ELSE 0

\* /\/\/([^:]+):([^@]+)@/ matches at position i: two slashes, one or more
\* characters up to the next colon, one or more up to the next at-sign
matchAt(u, i) ==
  /\ i + 1 <= Len(u) /\ u[i] = "/" /\ u[i + 1] = "/"
  /\ LET c == firstAt(u, ":", i + 2)
     IN /\ c > i + 2
        /\ firstAt(u, "@", c + 1) > c + 1

\* a replace that leaves the string as it is
redactNothing(u) == u

\* String.prototype.replace with the pattern above and '//$1:****@': the
\* leftmost match is replaced, a string without a match is returned as is
redact(u) ==
  IF \E i \in 1..Len(u) : matchAt(u, i)
    THEN LET i == CHOOSE k \in 1..Len(u) :
                    matchAt(u, k) /\ \A j \in 1..(k - 1) : ~matchAt(u, j)
             c == firstAt(u, ":", i + 2)
             a == firstAt(u, "@", c + 1)
         IN SubSeq(u, 1, c) \o Mask \o SubSeq(u, a, Len(u))
    ELSE u

(***************************************************************************)
(* Actions                                                                 *)
(***************************************************************************)
\* startServer calls connectDB, which logs the connection string and calls
\* mongoose.connect
connectDB ==
  /\ proc = "loaded"
  /\ proc' = "starting"
  /\ uriLine' = redact(MONGODB_URI)
  /\ connectCalls' = connectCalls + 1
  /\ readyState' = 2
  /\ UNCHANGED <<variant, MONGODB_URI, PORT, errorLogged, exitCode, store,
                 nextId, now, slots, deleted>>

\* a request arrives and runs up to its store call; a client that sends an
\* _id with a create re-uses an identifier it has been given
Receive(s, m, p, b) ==
  /\ Serving
  /\ slots[s].st = "free"
  /\ dispatch(variant, m, p).handler = "create" =>
       /\ nextId <= MaxItems
       /\ b._id.k # "absent" => \E i \in 1..(nextId - 1) : ObjectIds[i] = b._id.s
  /\ slots' = arrive(slots, s, receive(variant, readyState, m, p, b))
  /\ UNCHANGED <<variant, MONGODB_URI, uriLine, connectCalls, PORT, errorLogged, proc, exitCode, readyState, store, nextId, now, deleted>>

\* the values Date.now() can return to a write: the clock has not moved
\* since the last write, or it has
clockReads(v, h, t) ==
  IF Timestamps(v) /\ h \in {"create", "update"}
    THEN {t} \cup {u \in {t + 1} : u <= MaxClock}
    ELSE {t}

\* the store call of a request settles and the handler answers
Settle(s, ok, t) ==
  /\ Serving
  /\ slots[s].st = "pending"
  /\ ok => readyState = 1
  /\ t \in clockReads(variant, slots[s].handler, now)
  /\ LET q == slots[s]
         o == settle(variant, store, nextId, deleted, q, t, ok)
     IN /\ slots' = [slots EXCEPT ![s] = answer(q, o.resp)]
        /\ store' = o.store
        /\ nextId' = o.nextId
        /\ deleted' = o.deleted
        /\ now' = IF o.store = store THEN now ELSE t
  /\ UNCHANGED <<variant, MONGODB_URI, uriLine, connectCalls, PORT, errorLogged, proc, exitCode, readyState>>

\* the client has read the response
Collect(s) ==
  /\ slots[s].st = "done"
  /\ proc \notin {"exited", "killed"}
  /\ slots' = [slots EXCEPT ![s] = FreeSlot]
  /\ UNCHANGED <<variant, MONGODB_URI, uriLine, connectCalls, PORT, errorLogged, proc, exitCode, readyState, store, nextId, now, deleted>>

\* mongoose.connect resolves (connectDB logs the success and returns)
ConnectOk ==
  /\ readyState = 2
  /\ proc \in {"starting", "listening"}
  /\ readyState' = 1
  /\ UNCHANGED <<variant, MONGODB_URI, uriLine, connectCalls, PORT, errorLogged, proc, exitCode, store, nextId, now, slots, deleted>>

\* a connectDB whose catch branch calls mongoose.connect again
ConnectFailRetries ==
  /\ readyState = 2
  /\ proc \in {"starting", "listening"}
  /\ connectCalls' = connectCalls + 1
  /\ UNCHANGED <<variant, MONGODB_URI, uriLine, PORT, errorLogged, proc,
                 exitCode, readyState, store, nextId, now, slots, deleted>>

\* mongoose.connect rejects (server selection failed or timed out); the
\* catch of connectDB, or the .catch of backend/index.js, logs it
ConnectFail ==
  /\ readyState = 2
  /\ proc \in {"starting", "listening"}
  /\ readyState' = 0
  /\ UNCHANGED <<variant, MONGODB_URI, uriLine, connectCalls, PORT, errorLogged, proc, exitCode, store, nextId, now, slots, deleted>>

\* a startServer that gives up when the connection attempt has failed
startServerNeedsDatabase ==
  /\ proc = "starting"
  /\ readyState # 2
  /\ IF validPort(PORT) /\ readyState = 1
       THEN proc' = "listening" /\ exitCode' = exitCode
       ELSE proc' = "exited" /\ exitCode' = 1
  /\ UNCHANGED <<variant, MONGODB_URI, uriLine, connectCalls, PORT, errorLogged, readyState, store, nextId, now, slots, deleted>>

\* startServer after `await connectDB()`: app.listen(PORT); a port outside
\* 0..65535 makes listen throw, and the catch calls process.exit(1)
startServer ==
  /\ proc = "starting"
  /\ readyState # 2
  /\ IF validPort(PORT)
       THEN proc' = "listening" /\ exitCode' = exitCode
       ELSE proc' = "exited" /\ exitCode' = 1
  /\ UNCHANGED <<variant, MONGODB_URI, uriLine, connectCalls, PORT, errorLogged, readyState, store, nextId, now, slots, deleted>>

\* the connection to MongoDB is lost
Drop ==
  /\ readyState = 1
  /\ proc = "listening"
  /\ readyState' = 0
  /\ slots' = [s \in Slots |->
                 IF slots[s].st = "pending"
                   THEN [slots[s] EXCEPT !.stale = TRUE]
                   ELSE slots[s]]
  /\ UNCHANGED <<variant, MONGODB_URI, uriLine, connectCalls, PORT, errorLogged, proc, exitCode, store, nextId, now, deleted>>

\* a signal handler that exits without waiting for the close
SignalExitsAtOnce ==
  /\ variant \in {"server", "early"}
  /\ proc = "listening"
  /\ proc' = "exited"
  /\ exitCode' = 0
  /\ readyState' = IF readyState = 1 THEN 3 ELSE readyState
  /\ slots' = [s \in Slots |-> FreeSlot]
  /\ UNCHANGED <<variant, MONGODB_URI, uriLine, connectCalls, PORT, errorLogged, store, nextId, now, deleted>>

\* SIGINT or SIGTERM: the handler calls mongoose.connection.close()
Signal ==
  /\ variant \in {"server", "early"}
  /\ proc = "listening"
  /\ proc' = "closing"
  /\ readyState' = IF readyState = 1 THEN 3 ELSE readyState
  /\ UNCHANGED <<variant, MONGODB_URI, uriLine, connectCalls, PORT, errorLogged, exitCode, store, nextId, now, slots, deleted>>

\* close() resolves: process.exit(0); the process and its sockets are gone
CloseOk ==
  /\ proc = "closing"
  /\ proc' = "exited"
  /\ exitCode' = 0
  /\ readyState' = 0
  /\ slots' = [s \in Slots |-> FreeSlot]
  /\ UNCHANGED <<variant, MONGODB_URI, uriLine, connectCalls, PORT, errorLogged, store, nextId, now, deleted>>

\* close() rejects: process.exit(1).  Closing a connection that is already
\* disconnected does nothing and resolves, so only a real close can fail.
CloseFail ==
  /\ proc = "closing"
  /\ readyState = 3
  /\ proc' = "exited"
  /\ exitCode' = 1
  /\ slots' = [s \in Slots |-> FreeSlot]
  /\ UNCHANGED <<variant, MONGODB_URI, uriLine, connectCalls, PORT, errorLogged, readyState, store, nextId, now, deleted>>

\* backend/index.js installs no signal handler: the signal ends the process
Kill ==
  /\ variant = "backend"
  /\ proc = "listening"
  /\ proc' = "killed"
  /\ slots' = [s \in Slots |-> FreeSlot]
  /\ UNCHANGED <<variant, MONGODB_URI, uriLine, connectCalls, PORT, errorLogged, exitCode, readyState, store, nextId, now, deleted>>

\* global handlers that end the process, as Node does when none is installed
globalErrorHandlerExits(e) ==
  /\ variant \in {"server", "early"}
  /\ proc \in {"starting", "listening", "closing"}
  /\ errorLogged' = TRUE
  /\ proc' = "exited"
  /\ exitCode' = 1
  /\ slots' = [s \in Slots |-> FreeSlot]
  /\ UNCHANGED <<variant, MONGODB_URI, uriLine, connectCalls, PORT, readyState, store, nextId, now, deleted>>

\* process.on('uncaughtException') and process.on('unhandledRejection'):
\* some callback threw or some promise was rejected with no handler; the
\* handler writes the error to the console and returns
globalErrorHandler(e) ==
  /\ variant \in {"server", "early"}
  /\ proc \in {"starting", "listening", "closing"}
  /\ errorLogged' = TRUE
  /\ UNCHANGED <<variant, MONGODB_URI, uriLine, connectCalls, PORT, proc, exitCode, readyState, store, nextId,
                 now, slots, deleted>>

GlobalError ==
  \E e \in {"uncaughtException", "unhandledRejection"} : globalErrorHandler(e)

Request == \E s \in Serial, q \in Requests :
             \E b \in bodiesFor(q[1], q[2]) : Receive(s, q[1], q[2], b)

Reply == \E s \in Slots, ok \in BOOLEAN, t \in 0..MaxClock : Settle(s, ok, t)

Read == \E s \in Slots : Collect(s)

\* clients that work on one item at the same time: each updates one of
\* two disjoint sets of its fields, deletes it or reads it
ConcBodies ==
  { MkBody(JAbsent, JAbsent, JNum(6), JAbsent, JAbsent),
    MkBody(JStr("b"), JAbsent, JAbsent, JAbsent, JNum(6)) }

ConcRequests ==
  { <<m, <<"api", "items", "1">>>> : m \in {"GET", "PUT", "DELETE"} }

RequestConc ==
  \E s \in Slots, q \in ConcRequests :
    \E b \in (IF q[1] = "PUT" THEN ConcBodies ELSE {EmptyBody}) :
      Receive(s, q[1], q[2], b)

\* one body of each kind the handlers tell apart
AnswerBodies ==
  { EmptyBody, BadJson,
    MkBody(JStr("a"), JAbsent, JAbsent, JAbsent, JAbsent),
    MkBody(JStr(""), JAbsent, JAbsent, JAbsent, JAbsent),
    MkBody(JAbsent, JAbsent, JNum(6), JAbsent, JAbsent),
    MkBody(JAbsent, JAbsent, JStr("x"), JAbsent, JAbsent) }

RequestAnswers ==
  \E s \in Serial, q \in Requests :
    \E b \in bodiesFor(q[1], q[2]) \cap AnswerBodies :
      Receive(s, q[1], q[2], b)

Common == Request \/ Reply \/ Read \/ ConnectOk \/ ConnectFail \/ Drop

(***************************************************************************)
(* Specifications                                                          *)
(***************************************************************************)
InitOf(v, p) ==
  /\ variant = v
  /\ MONGODB_URI = DefaultUri
  /\ uriLine = IF v = "backend" THEN <<>> ELSE redact(DefaultUri)
  /\ connectCalls = 1
  /\ PORT = p
  /\ errorLogged = FALSE
  /\ proc = IF v = "backend" THEN "listening" ELSE "starting"
  /\ exitCode = -1
  /\ readyState = 2
  /\ store = {}
  /\ nextId = 1
  /\ now = 0
  /\ slots = [s \in Slots |-> FreeSlot]
  /\ deleted = {}

\* the server (src/unnamed/part_000)
Init == \E p \in Ports : InitOf("server", p)

Next == Common \/ startServer \/ Signal \/ CloseOk \/ CloseFail

Spec == Init /\ [][Next]_vars

\* the server under the scheduling Node and the driver guarantee: the
\* connection attempt settles (server selection gives up after
\* serverSelectionTimeoutMS), and the continuation of an await runs
SpecLive ==
  Spec /\ WF_vars(ConnectOk \/ ConnectFail) /\ WF_vars(startServer)

\* the server with a client that sends every request with one body of
\* each kind the handlers tell apart (none, unparseable, accepted, without
\* a name, failing a validator, failing a cast), when every store call
\* settles: the driver answers a call, or rejects it when bufferTimeoutMS
\* or socketTimeoutMS has passed
NextAnswers ==
  RequestAnswers \/ Reply \/ Read \/ ConnectOk \/ ConnectFail \/ Drop
    \/ startServer \/ Signal \/ CloseOk \/ CloseFail

SpecAnswers == Init /\ [][NextAnswers]_vars /\ WF_vars(Reply)

\* the server and its earlier version
InitEarly == \E p \in Ports : InitOf("early", p)

SpecServers == (Init \/ InitEarly) /\ [][Next]_vars

\* the server with uncaught exceptions and unhandled rejections occurring
NextFaults == Next \/ GlobalError

SpecFaults == Init /\ [][NextFaults]_vars

\* the server from the moment its module is loaded, with the connection
\* string of its environment
InitLoaded ==
  /\ variant = "server"
  /\ MONGODB_URI \in Uris
  /\ uriLine = <<>>
  /\ connectCalls = 0
  /\ PORT \in Ports
  /\ errorLogged = FALSE
  /\ proc = "loaded"
  /\ exitCode = -1
  /\ readyState = 0
  /\ store = {}
  /\ nextId = 1
  /\ now = 0
  /\ slots = [s \in Slots |-> FreeSlot]
  /\ deleted = {}

\* the server from the moment its module is loaded to its exit, with the
\* default connection string
InitLife ==
  /\ InitLoaded
  /\ MONGODB_URI = DefaultUri

NextLife == connectDB \/ NextFaults

SpecLife == InitLife /\ [][NextLife]_vars

NextStartup == connectDB \/ ConnectOk \/ ConnectFail \/ startServer

SpecStartup == InitLoaded /\ [][NextStartup]_vars

\* either program, connected and listening, with one item stored: the
\* state after startup and a create of {name: 'a'}
InitConc ==
  \E v \in {"server", "backend"} :
    /\ variant = v
    /\ MONGODB_URI = DefaultUri
    /\ uriLine = IF v = "backend" THEN <<>> ELSE redact(DefaultUri)
    /\ connectCalls = 1
    /\ PORT = IF v = "backend" THEN 3000 ELSE 5000
    /\ errorLogged = FALSE
    /\ proc = "listening"
    /\ exitCode = -1
    /\ readyState = 1
    /\ store = {stamp(v, newInventory(ObjectIds[1],
                   MkBody(JStr("a"), JAbsent, JAbsent, JAbsent, JAbsent)), 0)}
    /\ nextId = 2
    /\ now = 0
    /\ slots = [s \in Slots |-> FreeSlot]
    /\ deleted = {}

NextConc == RequestConc \/ Reply \/ Read \/ Drop

SpecConc == InitConc /\ [][NextConc]_vars

\* backend/index.js
InitBackend == InitOf("backend", 3000)

NextBackend == Common \/ Kill

SpecBackend == InitBackend /\ [][NextBackend]_vars

\* either program
InitAll == Init \/ InitBackend

NextAll == Common \/ startServer \/ Signal \/ CloseOk \/ CloseFail \/ Kill

SpecAll == InitAll /\ [][NextAll]_vars

(***************************************************************************)
(* Properties                                                              *)
(***************************************************************************)
\* the step in which a request arrives in slot s
Arrives(s) == slots[s].st = "free" /\ slots'[s].st # "free"

\* the step in which the store call of the request in slot s settles
Settles(s) == slots[s].st = "pending" /\ slots'[s].st = "done"

\* the step in which the request in slot s is answered
Answered(s) == slots[s].st # "done" /\ slots'[s].st = "done"

IsGateResponse(r) ==
  r.status = 503 /\ r.error = "Database unavailable" /\ r.database = "disconnected"

\* C1: a request to a data route that arrives while readyState is not
\* 'connected' is answered at once with 503 'Database unavailable',
\* database 'disconnected', and the process keeps running.
C1_Gate503 ==
  [][\A s \in Slots :
       (Arrives(s) /\ slots'[s].handler \in DataHandlers /\ readyState # 1)
         => /\ slots'[s].st = "done"
            /\ IsGateResponse(slots'[s].resp)
            /\ proc' = proc]_vars

\* C2: the gate comes before input validation: while not connected, a
\* get-by-id with a malformed identifier and a create without a name are
\* both answered 503 'Database unavailable', never 400.
C2_GateBeforeValidation ==
  [][\A s \in Slots :
       (/\ Arrives(s)
        /\ readyState # 1
        /\ \/ slots'[s].handler = "getById" /\ ~isObjectId(idOf(slots'[s]))
           \/ slots'[s].handler = "create" /\ ~truthy(slots'[s].body.name))
         => /\ slots'[s].st = "done"
            /\ IsGateResponse(slots'[s].resp)]_vars

\* a create without a name was answered 503 while the connection was closing
C2_Witness ==
  \E s \in Slots :
    /\ slots[s].st = "done"
    /\ slots[s].handler = "create"
    /\ ~truthy(slots[s].body.name)
    /\ slots[s].resp.status = 503
    /\ readyState = 3

\* C3: GET /health is never gated: it answers 200 in every connection
\* state, with database 'connected' exactly when readyState is 1.
C3_HealthNeverGated ==
  [][\A s \in Slots :
       (Arrives(s) /\ slots'[s].method = "GET" /\ slots'[s].path = <<"health">>)
         => /\ slots'[s].st = "done"
            /\ slots'[s].resp.status = 200
            /\ (slots'[s].resp.database = "connected") = (readyState = 1)
            /\ (slots'[s].resp.database = "disconnected") = (readyState # 1)]_vars

\* GET /health answered 200 'disconnected' while the connection was closing
C3_Witness ==
  \E s \in Slots :
    /\ slots[s].st = "done"
    /\ slots[s].path = <<"health">>
    /\ slots[s].resp.status = 200
    /\ slots[s].resp.database = "disconnected"
    /\ readyState = 3

\* C4: on a by-id route a malformed identifier is answered 400 'Invalid item
\* ID format' (never 500), and a well-formed identifier that matches no
\* document is answered 404 by every store call that completes.
C4_MalformedIs400 ==
  [][\A s \in Slots :
       (Settles(s) /\ slots[s].handler \in ByIdHandlers)
         => /\ ~isObjectId(idOf(slots[s]))
                 => /\ slots'[s].resp.status = 400
                    /\ slots'[s].resp.error = "Invalid item ID format"
            /\ (/\ isObjectId(idOf(slots[s]))
                /\ findById(store, idOf(slots[s])) = NoDoc
                /\ slots'[s].resp.error # StoreErrorMessage)
                 => slots'[s].resp.status = 404]_vars

\* a field of the request body is echoed unchanged, or defaulted when omitted
EchoOrDefault(sent, got, d) == got = (IF sent.k = "absent" THEN d ELSE sent)

\* a numeric field as the schema stores it: the number sent, the number a
\* numeric string stands for, or the default when omitted
StoredNumber(sent, got, d) ==
  /\ got.k = "num"
  /\ sent.k = "absent" => got.n = d
  /\ sent.k = "num" => got = sent
  /\ sent.k = "str" => sent.s \in DOMAIN NumericStrings /\ got.n = NumericStrings[sent.s]

\* the Number cast accepts the value sent
CastsToNumber(sent) ==
  sent.k \in {"absent", "num"} \/ (sent.k = "str" /\ sent.s \in DOMAIN NumericStrings)

C6_NoNameIs400 ==
  [][\A s \in Slots :
       (/\ Answered(s)
        /\ slots'[s].handler = "create"
        /\ ~truthy(slots'[s].body.name))
         => /\ slots'[s].resp.status \in {400, 503}
            /\ (readyState = 1 => slots'[s].resp.status = 400)
            /\ store' = store]_vars

\* a create with an empty name was answered 400
C6_Witness ==
  \E s \in Slots :
    /\ slots[s].st = "done"
    /\ slots[s].handler = "create"
    /\ slots[s].body.name = JStr("")
    /\ slots[s].resp.status = 400

\* C7: the low-stock listing returns exactly the stored documents with
\* quantity <= lowStockThreshold.
C7_LowStockExact ==
  [][\A s \in Slots :
       (Settles(s) /\ slots[s].handler = "lowStock"
          /\ slots'[s].resp.error # StoreErrorMessage)
         => /\ slots'[s].resp.status = 200
            /\ \A d \in store :
                 (d \in slots'[s].resp.items) = (d.quantity.n <= d.lowStockThreshold.n)
            /\ slots'[s].resp.items \subseteq store]_vars

\* a listing that contains a document with quantity = lowStockThreshold and
\* leaves out a stored document with quantity > lowStockThreshold
C7_Witness ==
  \E s \in Slots :
    /\ slots[s].st = "done"
    /\ slots[s].handler = "lowStock"
    /\ slots[s].resp.status = 200
    /\ \E d \in slots[s].resp.items : d.quantity.n = d.lowStockThreshold.n
    /\ \E d \in store : d \notin slots[s].resp.items
                          /\ d.quantity.n > d.lowStockThreshold.n

\* C8: GET /api/items/low-stock always goes to the low-stock handler, never
\* to get-by-id: it never answers 'Invalid item ID format' or 'Item not found'.
C8_LowStockRoute ==
  \A s \in Slots :
    (/\ slots[s].st # "free"
     /\ slots[s].method = "GET"
     /\ slots[s].path = <<"api", "items", "low-stock">>)
      => /\ slots[s].handler = "lowStock"
         /\ slots[s].resp.error \notin {"Invalid item ID format", "Item not found"}
         /\ slots[s].resp.status \notin {400, 404}

\* GET /api/items/low-stock was answered 200 with a listing
C8_Witness ==
  \E s \in Slots :
    /\ slots[s].st = "done"
    /\ slots[s].path = <<"api", "items", "low-stock">>
    /\ slots[s].method = "GET"
    /\ slots[s].resp.status = 200
    /\ slots[s].resp.items # {}

\* C9: once a delete of an identifier has been confirmed, every get-by-id
\* for that identifier that reaches the store and is answered by it gets
\* 404, whatever happened to other documents in between.
C9_DeletedIs404 ==
  [][\A s \in Slots :
       (/\ Settles(s)
        /\ slots[s].handler = "getById"
        /\ idOf(slots[s]) \in deleted
        /\ slots'[s].resp.error # StoreErrorMessage)
         => /\ slots'[s].resp.status = 404
            /\ slots'[s].resp.error = "Item not found"]_vars

\* a get-by-id of a deleted identifier was answered 404 while another
\* document, created after it, is stored
C9_Witness ==
  \E s \in Slots :
    /\ slots[s].st = "done"
    /\ slots[s].handler = "getById"
    /\ idOf(slots[s]) \in deleted
    /\ slots[s].resp.status = 404
    /\ \E d \in store : d._id # idOf(slots[s])

\* the value a body field leaves in the document: the old one when omitted
Merged(sent, old, got) == got = (IF sent.k = "absent" THEN old ELSE castNumber(sent))

\* C10: a successful update changes exactly the fields supplied, leaves the
\* other fields and the other documents unchanged, and the document's
\* updatedAt is later than before.
C10_PartialUpdate ==
  [][\A s \in Slots :
       (Settles(s) /\ slots[s].handler = "update" /\ slots'[s].resp.status = 200)
         => LET b == slots[s].body
                old == findById(store, idOf(slots[s]))
                new == slots'[s].resp.item
            IN /\ new \in store'
               /\ store' \ {new} = store \ {old}
               /\ new._id = old._id
               /\ new.name = (IF b.name.k = "absent" THEN old.name ELSE b.name)
               /\ new.category = (IF b.category.k = "absent" THEN old.category ELSE b.category)
               /\ new.vehicles = (IF b.vehicles.k = "absent" THEN old.vehicles ELSE b.vehicles)
               /\ Merged(b.quantity, old.quantity, new.quantity)
               /\ Merged(b.lowStockThreshold, old.lowStockThreshold, new.lowStockThreshold)
               /\ new.createdAt = old.createdAt
               /\ new.updatedAt.k = "num"
               /\ old.updatedAt.k = "num"
               /\ new.updatedAt.n > old.updatedAt.n]_vars

\* C11: whether the startup connection attempt succeeds, fails or times
\* out, the process goes on to listen: the attempt settling changes neither
\* the process state nor the exit status, startServer exits only when listen
\* itself throws (a port listen rejects), and with a port listen accepts a
\* starting process eventually listens.
C11_ListensWhateverConnect ==
  /\ [][(readyState = 2 /\ readyState' # 2)
          => (proc' = proc /\ exitCode' = exitCode)]_vars
  /\ [][(proc = "starting" /\ proc' # "starting")
          => (IF validPort(PORT) THEN proc' = "listening" /\ exitCode' = -1
              ELSE proc' = "exited" /\ exitCode' = 1)]_vars
  /\ [](proc = "starting" /\ readyState = 0 /\ validPort(PORT)
          => <>(proc = "listening"))
  /\ [](proc = "starting" /\ readyState # 0 /\ validPort(PORT)
          => <>(proc = "listening"))

\* the server listens in fallback mode: the attempt failed, nothing was
\* ever stored and the process has not exited
C11_Witness ==
  /\ variant = "server"
  /\ proc = "listening"
  /\ readyState = 0
  /\ exitCode = -1
  /\ nextId = 1

\* C12: on SIGINT or SIGTERM the process closes the store connection and
\* only then exits: the signal itself starts the close and does not exit,
\* the process has no exit status while the close is pending, and when the
\* close settles it exits with status 0 exactly when the close succeeded
\* (the connection is disconnected) and 1 exactly when it failed.
C12_CloseThenExit ==
  [][/\ (proc = "listening" /\ proc' # "listening")
         => /\ proc' = "closing"
            /\ exitCode' = -1
            /\ readyState' # 1
     /\ (proc = "closing" /\ proc' # "closing")
         => /\ exitCode = -1
            /\ proc' = "exited"
            /\ exitCode' \in {0, 1}
            /\ (exitCode' = 0) = (readyState' = 0)
            /\ (exitCode' = 1) = (readyState' = 3)]_vars

\* the process exited with status 1 after a close that failed
C12_Witness ==
  /\ proc = "exited"
  /\ exitCode = 1
  /\ readyState = 3

\* C13: an uncaught exception or an unhandled rejection never terminates
\* the process: the step that logs it changes nothing else, afterwards a
\* listening process still accepts and answers requests, and the process
\* exits only from a signal handler whose close has settled or from
\* startServer's catch.
C13_GlobalErrorsNotFatal ==
  /\ [][(errorLogged' # errorLogged)
          => UNCHANGED <<variant, MONGODB_URI, uriLine, connectCalls, PORT, proc, exitCode, readyState, store,
                         nextId, now, slots, deleted>>]_vars
  /\ [][(proc # "exited" /\ proc' = "exited")
          => \/ proc = "closing"
             \/ proc = "starting" /\ readyState # 2 /\ ~validPort(PORT)]_vars
  /\ []((errorLogged /\ proc = "listening")
          => /\ \A s \in Slots : slots[s].st = "free" => ENABLED Receive(s, "GET", <<>>, EmptyBody)
             /\ \A s \in Slots : slots[s].st = "pending" => ENABLED Settle(s, FALSE, now))

\* after an error was logged the server is listening and has answered a
\* listing with 200
C13_Witness ==
  /\ errorLogged
  /\ proc = "listening"
  /\ \E s \in Slots :
       /\ slots[s].st = "done"
       /\ slots[s].handler = "list"
       /\ slots[s].resp.status = 200

\* the elements of a sequence
Range(q) == { q[i] : i \in 1..Len(q) }

\* the routes a program defines, each as its method and pattern
definedRoutes(v) == { <<r.method, r.pattern>> : r \in Range(Routes(v)) }

\* no route of the running program matches the request in slot s
Unmatched(q) ==
  \A r \in Range(Routes(variant)) :
     ~(r.method = q.method /\ matches(r.pattern, q.path))

\* the eight routes of the server: GET /, GET /health and the six
\* /api/items routes
TheEightRoutes ==
  { <<"GET", <<>> >>, <<"GET", <<"health">> >>,
    <<"GET", <<"api", "items">> >>, <<"POST", <<"api", "items">> >>,
    <<"GET", <<"api", "items", "low-stock">> >>,
    <<"GET", <<"api", "items", ":id">> >>,
    <<"PUT", <<"api", "items", ":id">> >>,
    <<"DELETE", <<"api", "items", ":id">> >> }

\* C14 as claimed: every request whose method and path match no defined
\* route is answered 404 'Not Found' with an availableRoutes list equal to
\* the set of routes the program defines, in every connection state.
C14_UnmatchedIs404 ==
  [][\A s \in Slots :
       (Arrives(s) /\ Unmatched(slots'[s]))
         => /\ slots'[s].st = "done"
            /\ slots'[s].resp.status = 404
            /\ slots'[s].resp.error = "Not Found"
            /\ Range(slots'[s].resp.availableRoutes) = definedRoutes(variant)]_vars

\* C14 as amended: every request whose body parses and whose method and
\* path match no defined route is answered at once with 404 'Not Found' and
\* an availableRoutes list equal to the set of routes the program defines
\* (for the server the eight routes), in every connection state; a request
\* whose body does not parse is answered 400 by the error middleware
\* whatever its path.
C14_UnmatchedParsedIs404 ==
  [][\A s \in Slots :
       /\ (Arrives(s) /\ Unmatched(slots'[s]) /\ bodyParses(slots'[s].body))
            => /\ slots'[s].st = "done"
               /\ slots'[s].resp.status = 404
               /\ slots'[s].resp.error = "Not Found"
               /\ Range(slots'[s].resp.availableRoutes) = definedRoutes(variant)
               /\ variant = "server"
                    => Range(slots'[s].resp.availableRoutes) = TheEightRoutes
       /\ (Arrives(s) /\ ~bodyParses(slots'[s].body))
            => /\ slots'[s].st = "done"
               /\ slots'[s].resp.status = 400]_vars

\* the server answered 404 with its route list to a POST on /health (a path
\* that only GET is defined for) while the store was disconnected
C14_Witness ==
  \E s \in Slots :
    /\ variant = "server"
    /\ readyState = 0
    /\ slots[s].st = "done"
    /\ slots[s].method = "POST"
    /\ slots[s].path = <<"health">>
    /\ slots[s].resp.status = 404
    /\ Len(slots[s].resp.availableRoutes) = 8

\* the request in slot q has a well-formed identifier and a body that
\* passes casting and validation: only the store itself can fail it
WellFormed(q) ==
  /\ q.handler \in ByIdHandlers => isObjectId(idOf(q))
  /\ q.handler = "create" => validateDoc(newInventory("", q.body))
  /\ q.handler = "update" =>
       /\ ~hasCastError(castUpdate(q.body))
       /\ validateUpdate(castUpdate(q.body))

\* C15: in every data handler a store error that is neither a validation
\* failure nor a malformed identifier is answered 500 with a generic
\* message, not the text of the underlying error.  (A store call that
\* settles while the connection is not 'connected' has failed.)
C15_StoreErrorIs500 ==
  [][\A s \in Slots :
       (/\ Settles(s)
        /\ slots[s].handler \in DataHandlers
        /\ WellFormed(slots[s])
        /\ readyState # 1)
         => /\ slots'[s].resp.status = 500
            /\ slots'[s].resp.error # StoreErrorMessage]_vars

C17_NamesNonEmpty ==
  \A d \in store : d.name.k = "str" /\ d.name.s # ""

\* the identifiers of the stored documents
Ids(st) == { d._id : d \in st }

\* C18: no two stored items share an identifier, and an item's identifier
\* never changes: a successful update returns an item with the identifier
\* of the path, whatever the body contains (an _id field included), and
\* leaves the set of stored identifiers as it was; identifiers leave the
\* store only by a delete and enter it only by a create.
C18_IdUniqueImmutable ==
  /\ [](\A d, e \in store : d._id = e._id => d = e)
  /\ [][\A s \in Slots :
          /\ (Settles(s) /\ slots[s].handler = "update"
                /\ slots'[s].resp.status = 200)
               => /\ slots'[s].resp.item._id = idOf(slots[s])
                  /\ slots'[s].resp.item \in store'
                  /\ Ids(store') = Ids(store)
          /\ (Settles(s) /\ slots[s].handler # "delete")
               => Ids(store) \subseteq Ids(store')
          /\ (Settles(s) /\ slots[s].handler # "create")
               => Ids(store') \subseteq Ids(store)]_vars

\* an update whose body carried an _id field succeeded and returned the
\* item under the identifier of the path
C18_Witness ==
  \E s \in Slots :
    /\ slots[s].st = "done"
    /\ slots[s].handler = "update"
    /\ slots[s].body._id.k = "str"
    /\ slots[s].resp.status = 200
    /\ slots[s].resp.item._id = idOf(slots[s])
    /\ slots[s].resp.item \in store

\* C19: in every reachable state the quantity and lowStockThreshold of
\* every stored item are non-negative integers.
C19_NonNegativeNumbers ==
  \A d \in store :
    /\ d.quantity.k = "num" /\ d.quantity.n \in Nat
    /\ d.lowStockThreshold.k = "num" /\ d.lowStockThreshold.n \in Nat

\* the handlers that only read: the two listings, get-by-id, GET /,
\* GET /health and the 404 handler
ReadHandlers == {"list", "lowStock", "getById", "root", "health", "notFound"}

\* C20: the read operations and the non-data routes leave the set of stored
\* items and every field of every item unchanged, whatever their outcome:
\* no step of such a request, its arrival or its answer, changes the store.
C20_ReadsDoNotMutate ==
  [][\A s \in Slots :
       (/\ Arrives(s) \/ Settles(s)
        /\ slots'[s].handler \in ReadHandlers)
         => /\ store' = store
            /\ nextId' = nextId]_vars

\* a get-by-id was answered 200 with a stored item, and two items are stored
C20_Witness ==
  \E s \in Slots :
    /\ slots[s].st = "done"
    /\ slots[s].handler = "getById"
    /\ slots[s].resp.status = 200
    /\ slots[s].resp.item \in store
    /\ Cardinality(store) = 2

\* C26: the line connectDB logs for the connection string does not depend
\* on the password: whatever password the string carries, the line is the
\* one logged for the same string with any other password, and it shows
\* '****' where the password stands
C26_LogIndependentOfPassword ==
  uriLine # <<>> =>
    \A u \in Users, pw \in Passwords, h \in Hosts, t \in Tails :
      MONGODB_URI = Uri(withPassword(u, pw), h, t) =>
        /\ uriLine = Uri(withPassword(u, Mask), h, t)
        /\ \A other \in Passwords :
             redact(Uri(withPassword(u, other), h, t)) = uriLine

C26_Witness ==
  /\ MONGODB_URI = Uri(withPassword(<<"u">>, <<"p", "%">>), <<"h", ":", "2">>, <<"/", "d">>)
  /\ uriLine = Uri(withPassword(<<"u">>, Mask), <<"h", ":", "2">>, <<"/", "d">>)
  /\ proc = "listening"

C22_DeleteExactlyOne ==
  [][\A s \in Slots :
       (Settles(s) /\ slots[s].handler = "delete") =>
         LET id == idOf(slots[s])
             r == slots'[s].resp
         IN /\ r.status = 200 =>
                 /\ r.message = "Item deleted successfully"
                 /\ findById(store, id) # NoDoc
                 /\ store' = store \ {findById(store, id)}
            /\ (/\ isObjectId(id)
                /\ findById(store, id) = NoDoc
                /\ r.error # StoreErrorMessage)
                 => /\ r.status = 404
                    /\ r.error = "Item not found"
                    /\ store' = store
            /\ r.status # 200 => store' = store]_vars

\* the second delete of an identifier was answered 404 while another item
\* is still stored
C22_Witness ==
  \E s \in Slots :
    /\ slots[s].st = "done"
    /\ slots[s].handler = "delete"
    /\ idOf(slots[s]) \in deleted
    /\ slots[s].resp.status = 404
    /\ slots[s].resp.error = "Item not found"
    /\ \E d \in store : d._id # idOf(slots[s])

\* C23: a request makes at most one store call: one when it reaches a data
\* handler past the gate and the name check, none when either rejects it,
\* and the handler answers a failed call without making another.
C23_OneStoreOperation ==
  /\ [](\A s \in Slots : slots[s].ops <= 1)
  /\ [][\A s \in Slots :
         /\ (Arrives(s) /\ slots'[s].handler \in DataHandlers) =>
              LET q == slots'[s]
                  gateRejects == readyState # 1
                  nameRejects == /\ q.handler = "create"
                                 /\ \/ q.body.name.k = "absent"
                                    \/ q.body.name = JStr("")
              IN IF gateRejects \/ nameRejects
                   THEN q.ops = 0 /\ q.st = "done"
                   ELSE q.ops = 1 /\ q.st = "pending"
         /\ Settles(s) =>
              /\ slots[s].ops = 1
              /\ slots'[s].ops = 1
              /\ slots'[s].resp # NoResp]_vars

\* the store call of a request failed and the handler answered from its
\* catch branch after that one call
C23_Witness ==
  \E s \in Slots :
    /\ slots[s].st = "done"
    /\ slots[s].handler \in DataHandlers
    /\ slots[s].resp.error = StoreErrorMessage
    /\ slots[s].ops = 1

\* C24: the program calls mongoose.connect once in the life of the process:
\* connectDB makes the call at startup, and no later step (a request, a
\* connection event, a failed attempt, a logged error, a signal) makes
\* another.
C24_OneConnectAttempt ==
  /\ [](connectCalls = IF proc = "loaded" THEN 0 ELSE 1)
  /\ [][connectCalls' # connectCalls
          => proc = "loaded" /\ proc' = "starting" /\ readyState' = 2]_vars

\* the one attempt has failed, a request has been turned away by the gate
\* and an error has been logged by an observer, and no other attempt was
\* made
C24_Witness ==
  /\ connectCalls = 1
  /\ readyState = 0
  /\ errorLogged
  /\ \E s \in Slots : slots[s].st = "done" /\ slots[s].resp = GateResponse

\* C25: a request that passed the gate while the connection was up and
\* whose store call settles after the connection was lost is answered from
\* the catch branch of its handler (400 or 500), the process keeps
\* running, and every such request does get its answer (or the process has
\* been told to exit).
C25_StaleReadAnswered ==
  /\ [][\A s \in Slots :
         (Settles(s) /\ readyState # 1) =>
           /\ slots'[s].resp # NoResp
           /\ slots'[s].resp.status \in {400, 500}
           /\ proc' = proc
           /\ exitCode' = -1]_vars
  /\ \A s \in Serial :
       (slots[s].st = "pending" /\ slots[s].stale)
         ~> (slots[s].st = "done" \/ proc = "exited")

\* a list request passed the gate, the connection was lost while it
\* waited, and it was answered 500 by a server that still listens
C25_Witness ==
  \E s \in Slots :
    /\ slots[s].st = "done"
    /\ slots[s].handler = "list"
    /\ slots[s].stale
    /\ slots[s].resp.status = 500
    /\ slots[s].resp.error = StoreErrorMessage
    /\ readyState = 0
    /\ proc = "listening"

\* C27: a request answered with a status other than 200 or 201 (400, 404,
\* 500, 503) leaves the store as it was: no document is added, changed or
\* removed, and no identifier is used up.
C27_RejectedLeavesStore ==
  [][\A s \in Slots :
       (Answered(s) /\ slots'[s].resp.status \notin {200, 201})
         => /\ slots'[s].resp.status \in {400, 404, 500, 503}
            /\ store' = store
            /\ nextId' = nextId
            /\ deleted' = deleted]_vars

\* an update of a stored item was rejected by the validators, and the item
\* is stored with the name it had
C27_Witness ==
  \E s \in Slots :
    /\ slots[s].st = "done"
    /\ slots[s].handler = "update"
    /\ slots[s].body.name = JStr("")
    /\ slots[s].resp.status = 400
    /\ slots[s].resp.error = ValidationErrorMessage
    /\ findById(store, idOf(slots[s])) # NoDoc
    /\ findById(store, idOf(slots[s])).name \in {JStr("a"), JStr("b")}

\* C28: the program does not listen while its startup connection attempt
\* is still in progress: the step that starts listening is taken when the
\* attempt has succeeded or failed, and no request arrives at a program
\* whose connection is in the state 'connecting'.
C28_ListensAfterConnectSettled ==
  [][/\ (proc # "listening" /\ proc' = "listening") => readyState # 2
     /\ \A s \in Slots : Arrives(s) => readyState # 2]_vars

UpdateFields == {"name", "category", "quantity", "vehicles", "lowStockThreshold"}

\* the fields a body supplies
supplied(b) == {f \in UpdateFields : b[f].k # "absent"}

\* C29: when two updates of one item that supply disjoint sets of fields
\* waited for the store at the same time and both were answered 200, the
\* stored item carries every field either of them supplied.
C29_NoLostUpdate ==
  \A s \in Slots, t \in Slots :
    (/\ s # t
     /\ slots[s].st = "done" /\ slots[t].st = "done"
     /\ slots[s].handler = "update" /\ slots[t].handler = "update"
     /\ slots[s].conc /\ slots[t].conc
     /\ slots[s].resp.status = 200 /\ slots[t].resp.status = 200
     /\ idOf(slots[s]) = idOf(slots[t])
     /\ supplied(slots[s].body) \cap supplied(slots[t].body) = {})
      => LET d == findById(store, idOf(slots[s]))
         IN /\ d # NoDoc
            /\ \A f \in supplied(slots[s].body) : d[f] = slots[s].body[f]
            /\ \A f \in supplied(slots[t].body) : d[f] = slots[t].body[f]

\* an update of the quantity and an update of the name and threshold of
\* the same item were in flight together and both were answered 200
C29_Witness ==
  \E s \in Slots, t \in Slots :
    /\ slots[s].st = "done" /\ slots[t].st = "done"
    /\ slots[s].handler = "update" /\ slots[t].handler = "update"
    /\ slots[s].conc /\ slots[t].conc
    /\ slots[s].resp.status = 200 /\ slots[t].resp.status = 200
    /\ supplied(slots[s].body) = {"quantity"}
    /\ supplied(slots[t].body) = {"name", "lowStockThreshold"}
    /\ slots[s].resp.item.name = JStr("a")
    /\ findById(store, "1").quantity = JNum(6)
    /\ findById(store, "1").name = JStr("b")

\* C30: every request the server accepts gets exactly one response: a
\* request is answered when it arrives or waits for its store call, the
\* step that ends a handler sends a response, a response once sent is
\* never replaced by another, and (store calls settling) every waiting
\* request is answered unless the process has exited first.
C30_ExactlyOneResponse ==
  /\ [](\A s \in Slots : slots[s].st = "done" <=> slots[s].resp # NoResp)
  /\ [][\A s \in Slots :
         /\ Arrives(s) => slots'[s].st \in {"pending", "done"}
         /\ Answered(s) =>
              slots'[s].resp.status \in {200, 201, 400, 404, 500, 503}
         /\ slots[s].st = "done" =>
              slots'[s] = slots[s] \/ slots'[s].st = "free"]_vars
  /\ \A s \in Serial :
       slots[s].st = "pending" ~> (slots[s].st = "done" \/ proc = "exited")

\* an update that found no item has been answered 404, after its one
\* store call, by a server that is still listening
C30_Witness ==
  \E s \in Slots :
    /\ slots[s].st = "done"
    /\ slots[s].handler = "update"
    /\ slots[s].ops = 1
    /\ slots[s].resp = JsonError(404, "Item not found")
    /\ proc = "listening"

====
